---- MODULE Spec2Model ----
(***************************************************************************)
(* State-machine model of the parts of the OpenSearch tutorial repository  *)
(* that carry behaviour of their own:                                      *)
(*   - agent_helpers.wait_for_model_deployment      (variables w_..)       *)
(*   - the task-status poll loop of register_model  (variables r_..)       *)
(*   - the generic ingest/search app: its routes, its token checks, its    *)
(*     ingestion service and its Redis scratch store                       *)
(*   - the MCP client of the MCP server demo                               *)
(***************************************************************************)
EXTENDS Integers, Naturals, Sequences, FiniteSets, TLC

VARIABLES
    \* ---- wait_for_model_deployment (agent_helpers.py:79-113)
    w_pc,          \* "idle" | "poll" | "sleep" | "returned"
    w_now,         \* time.time()
    start_time,    \* local start_time
    timeout,       \* argument timeout
    check_interval,\* argument check_interval
    current_status,\* last outcome of the status request: a model_state, "ERROR" or "NONE"
    w_result,      \* "pending" | "True" | "False"
    \* ---- task-status poll loop (agent_helpers.py:139-150, reranking:80-89)
    r_pc,          \* "idle" | "poll" | "sleep" | "done" | "raised"
    r_task,        \* state of the ML task inside OpenSearch
    status_state,  \* last value of task_status['state'] seen by the loop, "ERROR" or "NONE"
    r_polls,       \* number of status requests made
    r_slept,       \* seconds spent in time.sleep
    \* ---- POST /ingest-stream and POST /ingest (routes/ingest.py:351-455)
    route,         \* "none" | "ingest-stream" | "ingest"
    s_in,          \* the request's file: [knn, bulk, nrows, failAt]
    ready,         \* the event loop's FIFO of runnable tasks (call_soon order)
    progress_queue,\* asyncio.Queue(): the items put and not yet got
    getter,        \* TRUE while the generator is suspended in progress_queue.get()
    g_pc,          \* progress_generator: "none" | "waiting" | "runnable" | "done"
    run_pc,        \* run_ingestion task: "none" | "created" | "done"
    h_pc,          \* POST /ingest handler: "none" | "running" | "done"
    sse,           \* the events written to the SSE stream, in order
    produced,      \* the updates ingest_data has passed to progress_callback, in order
    \* ---- mcp_client.py: get_mcp_client, MCPClient.initialize, MCPClient.query
    mcp_client,    \* the global _mcp_client: "None" | "MCPClient"
    m_llm,         \* self.llm is set
    m_client,      \* self.client is set
    m_tools,       \* self.tools: "None" | "Empty" | "Loaded"
    init_result,   \* initialize(): "none" | "running" | "True" | "False"
    init_calls,    \* number of times initialize() was started
    c_pc,          \* per calling coroutine: "idle" | "initializing" | "got" | "raised"
    c_saw,         \* per caller: init_result at the moment get_mcp_client returned to it
    q_pc,          \* MCPClient.query: "idle" | "loop" | "returned"
    iteration,     \* local iteration
    llm_calls,     \* number of llm_with_tools.ainvoke calls of this query
    last_tool_calls,\* len(response.tool_calls) of the latest response
    messages,      \* roles of the messages list
    tool_requests, \* tool calls asked for by the LLM in this query
    tool_calls_made,\* len(tool_calls_made)
    q_result,      \* the dictionary returned
    \* ---- SearchService.execute_with_agent (search_service.py:442-507)
    a_calls,       \* calls made by the latest execute_with_agent: [os, llm]
    \* ---- generic ingest/search app: routes/auth.py and the protected routes
    utcnow,        \* datetime.utcnow(), in minutes
    issued,        \* the tokens create_access_token has handed out
    logged_out,    \* the tokens presented to a POST /logout that succeeded
    last,          \* the request answered last in the current minute:
                   \* [route, cred, status, detail, ran]
    \* ---- IngestionService.ingest_data (ingest_service.py:194-471)
    i_pc,          \* "idle" | "mappings" | "index" | "format" | "load" | "rows"
                   \* | "refresh" | "returned" | "raised"
    i_in,          \* the call: [index_name, knn, bulk, nrows]
    pipeline_id,   \* local pipeline_id
    total_docs,    \* local total_docs
    doc_count,     \* rows the loop has gone through (idx + 1 on the DataFrame path)
    bulk_body,     \* local bulk_body: the rows buffered for the next bulk request
    requests,      \* the bodies passed to os_service.bulk_index, in order
    os_log,        \* the other OpenSearch calls made, in order
    updates,       \* the updates passed to progress_callback, in order
    i_result,      \* the dictionary returned
    \* ---- FileProcessingService and the Redis store (file_service.py)
    redis,         \* per key: seconds left to live, 0 for a key that is not there
    file_ids,      \* the file ids save_uploaded_file has handed out
    f_read         \* the latest POST /ingest-summary: [file, status]

varsW == <<w_pc, w_now, start_time, timeout, check_interval, current_status, w_result>>
varsR == <<r_pc, r_task, status_state, r_polls, r_slept>>
varsS == <<route, s_in, ready, progress_queue, getter, g_pc, run_pc, h_pc, sse, produced>>
varsM == <<mcp_client, m_llm, m_client, m_tools, init_result, init_calls, c_pc, c_saw>>
varsQ == <<q_pc, iteration, llm_calls, last_tool_calls, messages, tool_requests,
           tool_calls_made, q_result, a_calls>>
varsA == <<utcnow, issued, logged_out, last>>
varsI == <<i_pc, i_in, pipeline_id, total_docs, doc_count, bulk_body, requests, os_log,
           updates, i_result>>
varsF == <<redis, file_ids, f_read>>
vars  == <<varsW, varsR, varsS, varsM, varsQ, varsA, varsI, varsF>>

\* what each part of the program leaves alone
notW == <<varsR, varsS, varsM, varsQ, varsA, varsI, varsF>>
notR == <<varsW, varsS, varsM, varsQ, varsA, varsI, varsF>>
notS == <<varsW, varsR, varsM, varsQ, varsA, varsI, varsF>>
notM == <<varsW, varsR, varsS, varsQ, varsA, varsI, varsF>>
notQ == <<varsW, varsR, varsS, varsM, varsA, varsI, varsF>>
notA == <<varsW, varsR, varsS, varsM, varsQ, varsI, varsF>>
notI == <<varsW, varsR, varsS, varsM, varsQ, varsA, varsF>>
notF == <<varsW, varsR, varsS, varsM, varsQ, varsA, varsI>>

(***************************************************************************)
(* Bounds of the model                                                     *)
(***************************************************************************)
MaxTimeout  == 3    \* timeouts 1..MaxTimeout seconds
MaxInterval == 2    \* check intervals 1..MaxInterval seconds
MaxReqTime  == 1    \* a status request takes 0..MaxReqTime seconds
MaxClock    == 8    \* no poll is started after this time (caps the clock)
MaxPolls    == 5    \* the registration loop is followed for this many polls
MaxBatches  == 2    \* an uploaded file holds up to MaxBatches full bulk batches (+1 row)
NumCallers  == 3    \* coroutines calling get_mcp_client concurrently
MaxToolCalls == 2   \* an LLM response asks for up to MaxToolCalls tools
MaxNow      == 90   \* the server clock is followed up to this minute
MaxTokens   == 2    \* tokens issued by POST /login

(***************************************************************************)
(* wait_for_model_deployment                                               *)
(***************************************************************************)
ModelStates == {"DEPLOYING", "DEPLOYED", "FAILED"}

\* The body of one loop iteration after the status request has come back
\* (or raised): the next control point and the value returned, if any.
WaitOutcome(status, elapsed, tmo) ==
    IF status = "ERROR"              THEN <<"sleep", "pending">>     \* except: sleep
    ELSE IF status = "DEPLOYED"      THEN <<"returned", "True">>
    ELSE IF status = "FAILED"        THEN <<"returned", "False">>
    ELSE IF elapsed > tmo            THEN <<"returned", "False">>
    ELSE                                  <<"sleep", "pending">>

WaitCall ==
    /\ w_pc = "idle"
    /\ \E t \in 1..MaxTimeout, c \in 1..MaxInterval :
          /\ timeout' = t
          /\ check_interval' = c
    /\ start_time' = w_now
    /\ w_pc' = "poll"
    /\ UNCHANGED <<w_now, current_status, w_result, notW>>

WaitPoll ==
    /\ w_pc = "poll"
    /\ w_now <= MaxClock
    /\ \E d \in 0..MaxReqTime, s \in ModelStates \cup {"ERROR"} :
          LET out == WaitOutcome(s, (w_now + d) - start_time, timeout) IN
          /\ w_now' = w_now + d
          /\ current_status' = s
          /\ w_pc' = out[1]
          /\ w_result' = out[2]
    /\ UNCHANGED <<start_time, timeout, check_interval, notW>>

WaitSleep ==
    /\ w_pc = "sleep"
    /\ w_now' = w_now + check_interval
    /\ w_pc' = "poll"
    /\ UNCHANGED <<start_time, timeout, check_interval, current_status, w_result, notW>>

InitW ==
    /\ w_pc = "idle"
    /\ w_now = 0
    /\ start_time = 0
    /\ timeout = 1
    /\ check_interval = 1
    /\ current_status = "NONE"
    /\ w_result = "pending"

NextWait == WaitCall \/ WaitPoll \/ WaitSleep

(***************************************************************************)
(* The task-status poll loop of create_embedding_model / register_model    *)
(***************************************************************************)
TaskStates == {"CREATED", "RUNNING", "COMPLETED", "FAILED"}

SleepSeconds == 10

\* if status_state == 'COMPLETED': ... break
PollBreaks_onFailedToo(state) == state \in {"COMPLETED", "FAILED"}
PollBreaks(state) == state = "COMPLETED"

\* POST /_plugins/_ml/models/_register returns the task id
RegisterCall ==
    /\ r_pc = "idle"
    /\ r_pc' = "poll"
    /\ r_task' = "CREATED"
    /\ UNCHANGED <<status_state, r_polls, r_slept, notR>>

\* OpenSearch works on the task; COMPLETED and FAILED are final
TaskProgress ==
    /\ r_pc \in {"poll", "sleep"}
    /\ \/ r_task = "CREATED" /\ r_task' \in {"RUNNING", "FAILED"}
       \/ r_task = "RUNNING" /\ r_task' \in {"COMPLETED", "FAILED"}
    /\ UNCHANGED <<r_pc, status_state, r_polls, r_slept, notR>>

\* GET /_plugins/_ml/tasks/{id} answers with the task's state
RegisterPoll ==
    /\ r_pc = "poll"
    /\ r_polls < MaxPolls
    /\ status_state' = r_task
    /\ r_polls' = r_polls + 1
    /\ r_pc' = IF PollBreaks(r_task) THEN "done" ELSE "sleep"
    /\ UNCHANGED <<r_task, r_slept, notR>>

\* GET /_plugins/_ml/tasks/{id} raises (transport error): nothing catches it
RegisterPollRaises ==
    /\ r_pc = "poll"
    /\ r_polls < MaxPolls
    /\ status_state' = "ERROR"
    /\ r_polls' = r_polls + 1
    /\ r_pc' = "raised"
    /\ UNCHANGED <<r_task, r_slept, notR>>

\* time.sleep(10)
RegisterSleep ==
    /\ r_pc = "sleep"
    /\ r_slept' = r_slept + SleepSeconds
    /\ r_pc' = "poll"
    /\ UNCHANGED <<r_task, status_state, r_polls, notR>>

InitR ==
    /\ r_pc = "idle"
    /\ r_task = "CREATED"
    /\ status_state = "NONE"
    /\ r_polls = 0
    /\ r_slept = 0

NextRegister ==
    RegisterCall \/ TaskProgress \/ RegisterPoll \/ RegisterPollRaises \/ RegisterSleep


(***************************************************************************)
(* IngestionService.ingest_data: the progress updates it hands to          *)
(* progress_callback                                                       *)
(***************************************************************************)
batch_size == 500

Update(st, pr, who) == [status |-> st, progress |-> pr, by |-> who]

\* files of 0, 1, batch_size, batch_size + 1, ... rows
RowCounts == {k * batch_size + r : k \in 0..MaxBatches, r \in {0, 1}}

\* progress_pct of the update sent after the k-th full batch
\* DataFrame path: 50 + int((idx / total_docs) * 40), idx the batch's last row label
\* bulk path:      50 + int((doc_count / total_docs) * 40)
BatchProgress(bulk, k, total) ==
    IF bulk THEN 50 + ((k * batch_size) * 40) \div total
            ELSE 50 + ((k * batch_size - 1) * 40) \div total

BatchUpdates(bulk, nrows) ==
    [k \in 1..(nrows \div batch_size) |->
        Update("processing", BatchProgress(bulk, k, nrows), "ingest_data")]

\* the updates of a run in which nothing raises
SuccessUpdates(knn, bulk, nrows) ==
    (IF knn THEN <<Update("processing", 10, "ingest_data")>> ELSE <<>>)
    \o <<Update("processing", 15, "ingest_data"),
         Update("processing", 20, "ingest_data"),
         Update("processing", 40, "ingest_data"),
         Update("processing", 50, "ingest_data")>>
    \o BatchUpdates(bulk, nrows)
    \o <<Update("processing", 95, "ingest_data"),
         Update("completed", 100, "ingest_data")>>

\* failAt = 0: nothing raises.  failAt = n > 0: a call raises after n - 1
\* updates were sent; the except clause sends the failed update and re-raises.
IngestUpdates(knn, bulk, nrows, failAt) ==
    IF failAt = 0 THEN SuccessUpdates(knn, bulk, nrows)
    ELSE SubSeq(SuccessUpdates(knn, bulk, nrows), 1, failAt - 1)
         \o <<Update("failed", 0, "ingest_data")>>

IngestInputs ==
    {i \in [knn : BOOLEAN, bulk : BOOLEAN, nrows : RowCounts, failAt : 0..(7 + MaxBatches)] :
        i.failAt <= Len(SuccessUpdates(i.knn, i.bulk, i.nrows))}

(***************************************************************************)
(* POST /ingest-stream: progress_generator, run_ingestion and the tasks    *)
(* progress_callback creates, run by one asyncio event loop                *)
(***************************************************************************)
NoneItem == Update("None", 0, "run_ingestion")                \* progress_queue.put(None)

Task(kind, u) == [t |-> kind, u |-> u]

\* progress_callback(update): asyncio.create_task(progress_queue.put(update))
progress_callback_twice(update) == <<Task("put", update), Task("put", update)>>
progress_callback(update) == <<Task("put", update)>>

RECURSIVE CallbackTasks(_)
CallbackTasks(ups) ==
    IF ups = <<>> THEN <<>> ELSE progress_callback(Head(ups)) \o CallbackTasks(Tail(ups))

\* the event run_ingestion itself puts on the queue after ingest_data
TerminalEvent(failAt) ==
    IF failAt = 0 THEN Update("completed", 100, "run_ingestion")
                  ELSE Update("failed", 0, "run_ingestion")

\* Queue.put on an unbounded queue is put_nowait: it appends and, if a getter
\* is suspended in get(), schedules that task (call_soon) - it never suspends.
WakeGetter == IF getter THEN <<Task("generator", NoneItem)>> ELSE <<>>

\* the handler returns the StreamingResponse; the generator runs up to its
\* first suspension: create_task(run_ingestion()), then await progress_queue.get()
StreamRequest ==
    /\ route = "none"
    /\ \E i \in IngestInputs : s_in' = i
    /\ route' = "ingest-stream"
    /\ run_pc' = "created"
    /\ ready' = <<Task("run_ingestion", NoneItem)>>
    /\ getter' = TRUE
    /\ g_pc' = "waiting"
    /\ UNCHANGED <<progress_queue, h_pc, sse, produced, notS>>

\* one step of the run_ingestion task: ingest_data is a plain (blocking) call,
\* and neither put suspends, so the task runs to its end in this step
RunIngestionStep ==
    /\ ready # <<>>
    /\ Head(ready).t = "run_ingestion"
    /\ LET ups == IngestUpdates(s_in.knn, s_in.bulk, s_in.nrows, s_in.failAt) IN
       /\ produced' = ups
       /\ ready' = Tail(ready) \o CallbackTasks(ups) \o WakeGetter
    /\ progress_queue' = progress_queue \o <<TerminalEvent(s_in.failAt), NoneItem>>
    /\ g_pc' = IF getter THEN "runnable" ELSE g_pc
    /\ getter' = FALSE
    /\ run_pc' = "done"
    /\ UNCHANGED <<route, s_in, h_pc, sse, notS>>

\* one step of a task created by progress_callback: progress_queue.put(update)
PutTaskStep ==
    /\ ready # <<>>
    /\ Head(ready).t = "put"
    /\ progress_queue' = Append(progress_queue, Head(ready).u)
    /\ ready' = Tail(ready) \o WakeGetter
    /\ g_pc' = IF getter THEN "runnable" ELSE g_pc
    /\ getter' = FALSE
    /\ UNCHANGED <<route, s_in, run_pc, h_pc, sse, produced, notS>>

\* the generator's loop body on the item it got: what it writes and whether it goes on
Yields(update) == update # NoneItem
Breaks(update) == update = NoneItem \/ update.status \in {"completed", "failed"}

\* one turn of the generator's while loop.  After a yield the response's send
\* may complete at once (the generator stays at the head of the loop's FIFO)
\* or suspend, which reschedules the generator behind the tasks already runnable.
GeneratorStep ==
    /\ ready # <<>>
    /\ Head(ready).t = "generator"
    /\ IF progress_queue = <<>>
       THEN /\ getter' = TRUE
            /\ g_pc' = "waiting"
            /\ ready' = Tail(ready)
            /\ UNCHANGED <<progress_queue, sse>>
       ELSE LET update == Head(progress_queue) IN
            /\ progress_queue' = Tail(progress_queue)
            /\ sse' = IF Yields(update) THEN Append(sse, update) ELSE sse
            /\ getter' = FALSE
            /\ IF Breaks(update)
               THEN g_pc' = "done" /\ ready' = Tail(ready)
               ELSE /\ g_pc' = "runnable"
                    /\ \/ ready' = ready
                       \/ ready' = Append(Tail(ready), Head(ready))
    /\ UNCHANGED <<route, s_in, run_pc, h_pc, produced, notS>>

(***************************************************************************)
(* POST /ingest: the handler calls ingest_data without a callback          *)
(***************************************************************************)
IngestRequest ==
    /\ route = "none"
    /\ \E i \in IngestInputs : s_in' = i
    /\ route' = "ingest"
    /\ h_pc' = "running"
    /\ UNCHANGED <<ready, progress_queue, getter, g_pc, run_pc, sse, produced, notS>>

\* ingest_data(file_id, index_name) returns or raises; progress_callback is None
IngestRun ==
    /\ h_pc = "running"
    /\ h_pc' = "done"
    /\ UNCHANGED <<route, s_in, ready, progress_queue, getter, g_pc, run_pc, sse, produced, notS>>

\* the response has been sent; the server takes the next request
RequestEnds ==
    /\ \/ route = "ingest" /\ h_pc = "done"
       \/ route = "ingest-stream" /\ g_pc = "done" /\ ready = <<>>
    /\ route' = "none"
    /\ g_pc' = "none"
    /\ run_pc' = "none"
    /\ h_pc' = "none"
    /\ progress_queue' = <<>>
    /\ sse' = <<>>
    /\ produced' = <<>>
    /\ s_in' = [knn |-> FALSE, bulk |-> FALSE, nrows |-> 0, failAt |-> 0]
    /\ UNCHANGED <<ready, getter, notS>>

\* tasks created for the request and not yet finished
PendingPuts == Len(SelectSeq(ready, LAMBDA t : t.t = "put"))
TasksInFlight ==
    (IF g_pc \in {"waiting", "runnable"} THEN 1 ELSE 0)
    + (IF run_pc = "created" THEN 1 ELSE 0)
    + PendingPuts
    + (IF h_pc = "running" THEN 1 ELSE 0)

InitS ==
    /\ route = "none"
    /\ s_in = [knn |-> FALSE, bulk |-> FALSE, nrows |-> 0, failAt |-> 0]
    /\ ready = <<>>
    /\ progress_queue = <<>>
    /\ getter = FALSE
    /\ g_pc = "none"
    /\ run_pc = "none"
    /\ h_pc = "none"
    /\ sse = <<>>
    /\ produced = <<>>

NextStream ==
    \/ StreamRequest \/ RunIngestionStep \/ PutTaskStep \/ GeneratorStep
    \/ IngestRequest \/ IngestRun \/ RequestEnds


(***************************************************************************)
(* mcp_client.py: get_mcp_client and MCPClient.initialize                  *)
(***************************************************************************)
Callers == 1..NumCallers

\* get_mcp_client, _mcp_client is None: _mcp_client = MCPClient() is assigned
\* first, then initialize() runs up to its first suspension.  Either a
\* constructor (ChatOpenAI, MultiServerMCPClient) raises, initialize() returns
\* False at once and get_mcp_client raises RuntimeError, or the coroutine is
\* suspended in `await self.client.get_tools()`.
GetClientFresh(c) ==
    /\ c_pc[c] = "idle"
    /\ mcp_client = "None"
    /\ mcp_client' = "MCPClient"
    /\ init_calls' = init_calls + 1
    /\ \/ /\ m_llm' \in BOOLEAN             \* which constructor raised
          /\ m_client' = FALSE
          /\ init_result' = "False"
          /\ c_pc' = [c_pc EXCEPT ![c] = "raised"]
          /\ c_saw' = [c_saw EXCEPT ![c] = "False"]
       \/ /\ m_llm' = TRUE
          /\ m_client' = TRUE
          /\ init_result' = "running"
          /\ c_pc' = [c_pc EXCEPT ![c] = "initializing"]
          /\ UNCHANGED c_saw
    /\ UNCHANGED <<m_tools, notM>>

\* get_tools() answers: initialize() returns True, get_mcp_client returns the client
GetToolsReturns(c) ==
    /\ c_pc[c] = "initializing"
    /\ m_tools' \in {"Empty", "Loaded"}
    /\ init_result' = "True"
    /\ c_pc' = [c_pc EXCEPT ![c] = "got"]
    /\ c_saw' = [c_saw EXCEPT ![c] = "True"]
    /\ UNCHANGED <<mcp_client, m_llm, m_client, init_calls, notM>>

\* get_tools() raises: initialize() returns False, get_mcp_client raises RuntimeError
GetToolsRaises(c) ==
    /\ c_pc[c] = "initializing"
    /\ init_result' = "False"
    /\ c_pc' = [c_pc EXCEPT ![c] = "raised"]
    /\ c_saw' = [c_saw EXCEPT ![c] = "False"]
    /\ UNCHANGED <<mcp_client, m_llm, m_client, m_tools, init_calls, notM>>

\* get_mcp_client, _mcp_client is not None: return _mcp_client
GetClientExisting(c) ==
    /\ c_pc[c] = "idle"
    /\ mcp_client # "None"
    /\ c_pc' = [c_pc EXCEPT ![c] = "got"]
    /\ c_saw' = [c_saw EXCEPT ![c] = init_result]
    /\ UNCHANGED <<mcp_client, m_llm, m_client, m_tools, init_result, init_calls, notM>>

\* the caller is done with what get_mcp_client gave it and may call again
CallerReturns(c) ==
    /\ c_pc[c] \in {"got", "raised"}
    /\ q_pc = "idle"
    /\ c_pc' = [c_pc EXCEPT ![c] = "idle"]
    /\ UNCHANGED <<mcp_client, m_llm, m_client, m_tools, init_result, init_calls, c_saw, notM>>

InitM ==
    /\ mcp_client = "None"
    /\ m_llm = FALSE
    /\ m_client = FALSE
    /\ m_tools = "None"
    /\ init_result = "none"
    /\ init_calls = 0
    /\ c_pc = [c \in Callers |-> "idle"]
    /\ c_saw = [c \in Callers |-> "none"]

NextMcp ==
    \E c \in Callers :
        \/ GetClientFresh(c) \/ GetToolsReturns(c) \/ GetToolsRaises(c)
        \/ GetClientExisting(c) \/ CallerReturns(c)

(***************************************************************************)
(* MCPClient.query: the agent loop                                         *)
(***************************************************************************)
max_iterations == 10

NoMetadata == 0 - 1      \* "metadata": {} carries no iterations

Result(ok, err, its) == [success |-> ok, error |-> err, iterations |-> its]
NoResult == Result(FALSE, "pending", NoMetadata)

\* while iteration < max_iterations
LoopContinues_offByOne(it) == it <= max_iterations
LoopContinues(it) == it < max_iterations

\* what the loop appends to messages for one tool call of the response
ToolMessages_resultDropped == <<"assistant">>
ToolMessages == <<"assistant", "tool">>

RECURSIVE Repeat(_, _)
Repeat(sq, n) == IF n = 0 THEN <<>> ELSE sq \o Repeat(sq, n - 1)

\* execute_query: client = await get_mcp_client(); await client.query(...)
\* query starts: the guard on client, llm and tools, then the loop's set-up
QueryCall ==
    /\ q_pc = "idle"
    /\ \E c \in Callers : c_pc[c] = "got"
    /\ IF ~m_client \/ ~m_llm \/ m_tools # "Loaded"
       THEN /\ q_pc' = "returned"
            /\ q_result' = Result(FALSE, "not initialized", NoMetadata)
            /\ UNCHANGED messages
       ELSE /\ q_pc' = "loop"
            /\ messages' = <<"system", "user">>
            /\ UNCHANGED q_result
    /\ iteration' = 0
    /\ llm_calls' = 0
    /\ last_tool_calls' = 0
    /\ tool_requests' = 0
    /\ tool_calls_made' = 0
    /\ UNCHANGED <<a_calls, notQ>>

\* one turn of the loop: the LLM is invoked and answers with k tool calls, of
\* which j are found and run without raising; with k = 0 the answer is final
QueryIterate ==
    /\ q_pc = "loop"
    /\ LoopContinues(iteration)
    /\ iteration' = iteration + 1
    /\ llm_calls' = llm_calls + 1
    /\ \E k \in 0..MaxToolCalls : \E j \in 0..k :
          /\ last_tool_calls' = k
          /\ tool_requests' = tool_requests + k
          /\ tool_calls_made' = tool_calls_made + j
          /\ messages' = messages \o Repeat(ToolMessages, k)
          /\ IF k = 0
             THEN /\ q_pc' = "returned"
                  /\ q_result' = Result(TRUE, "None", iteration + 1)
             ELSE IF LoopContinues(iteration + 1)
             THEN /\ q_pc' = "loop"
                  /\ UNCHANGED q_result
             ELSE /\ q_pc' = "returned"
                  /\ q_result' = Result(FALSE, "Max iterations reached", iteration + 1)
    /\ UNCHANGED <<a_calls, notQ>>

\* llm_with_tools.ainvoke raises: the outer except returns the error, metadata {}
QueryLlmRaises ==
    /\ q_pc = "loop"
    /\ LoopContinues(iteration)
    /\ iteration' = iteration + 1
    /\ llm_calls' = llm_calls + 1
    /\ q_pc' = "returned"
    /\ q_result' = Result(FALSE, "exception", NoMetadata)
    /\ UNCHANGED <<last_tool_calls, messages, tool_requests, tool_calls_made, a_calls, notQ>>

\* the caller has the result
QueryDone ==
    /\ q_pc = "returned"
    /\ q_pc' = "idle"
    /\ q_result' = NoResult
    /\ iteration' = 0
    /\ llm_calls' = 0
    /\ last_tool_calls' = 0
    /\ tool_requests' = 0
    /\ tool_calls_made' = 0
    /\ messages' = <<>>
    /\ UNCHANGED <<a_calls, notQ>>

(***************************************************************************)
(* SearchService.execute_with_agent                                        *)
(***************************************************************************)
\* OpenSearch calls of _get_model_id_from_pipeline: indices.get, then
\* ingest.get_pipeline when the index has a default_pipeline
ModelIdCalls(has_pipeline) == IF has_pipeline THEN 2 ELSE 1

\* OpenSearch calls of semantic_search / hybrid_search followed by the
\* optional second _get_model_id_from_pipeline of execute_with_agent
AgentOsCalls(search_type, has_knn, has_pipeline, neural_fails, agent_ready) ==
    IF search_type = "semantic"
    THEN IF ~has_knn THEN 1                      \* indices.get, then ValueError
         ELSE 1 + ModelIdCalls(has_pipeline) + 1
                + (IF has_pipeline /\ neural_fails THEN 1 ELSE 0)
                + (IF agent_ready THEN ModelIdCalls(has_pipeline) ELSE 0)
    ELSE 1 + (IF has_knn THEN ModelIdCalls(has_pipeline) ELSE 0) + 1
           + (IF agent_ready THEN ModelIdCalls(has_pipeline) ELSE 0)

ExecuteWithAgent ==
    /\ q_pc = "idle"
    /\ \E st \in {"semantic", "hybrid"}, knn \in BOOLEAN, pl \in BOOLEAN,
          nf \in BOOLEAN, ar \in BOOLEAN :
          a_calls' = [os |-> AgentOsCalls(st, knn, pl, nf, ar), llm |-> 0]
    /\ UNCHANGED <<q_pc, iteration, llm_calls, last_tool_calls, messages, tool_requests,
                   tool_calls_made, q_result, notQ>>

InitQ ==
    /\ q_pc = "idle"
    /\ iteration = 0
    /\ llm_calls = 0
    /\ last_tool_calls = 0
    /\ messages = <<>>
    /\ tool_requests = 0
    /\ tool_calls_made = 0
    /\ q_result = NoResult
    /\ a_calls = [os |-> 0, llm |-> 0]

\* one coroutine calling execute_query again and again, and the search service
NextQuery ==
    \/ GetClientFresh(1) \/ GetToolsReturns(1) \/ GetToolsRaises(1)
    \/ GetClientExisting(1) \/ CallerReturns(1)
    \/ QueryCall \/ QueryIterate \/ QueryLlmRaises \/ QueryDone
    \/ ExecuteWithAgent


(***************************************************************************)
(* generic ingest/search app: authentication (routes/auth.py) and the      *)
(* routes that depend on verify_token                                      *)
(***************************************************************************)
ACCESS_TOKEN_EXPIRE_MINUTES == 60

DEMO_USERS == {"admin", "user"}

IngestRoutes == {"/upload", "/preview", "/get-columns", "/suggest-mappings",
                 "/confirm-mappings", "/available-models", "/confirm-knn",
                 "/ingest-summary", "/ingest-stream", "/ingest"}
SearchRoutes == {"/indices", "/execute", "/execute-with-agent"}
AuthRoutes   == {"/me", "/logout"}

\* the routes whose signature carries Depends(verify_token)
DependsOnVerifyToken_uploadOpen(r) == r \in (IngestRoutes \ {"/upload"}) \cup SearchRoutes \cup AuthRoutes
DependsOnVerifyToken(r) == r \in IngestRoutes \cup SearchRoutes \cup AuthRoutes

\* a bearer credential: who signed it and its exp claim
Token(sub, exp, key) == [sub |-> sub, exp |-> exp, key |-> key]
NoCredentials == Token("nobody", 0, "none")           \* no Authorization header
Garbage       == Token("nobody", 0, "not a JWT")
Forged        == {Token("admin", e, "another key") : e \in {0, MaxNow + ACCESS_TOKEN_EXPIRE_MINUTES}}

\* create_access_token: exp = utcnow + ACCESS_TOKEN_EXPIRE_MINUTES, signed with SECRET_KEY
create_access_token(sub, now) == Token(sub, now + ACCESS_TOKEN_EXPIRE_MINUTES, "SECRET_KEY")

\* verify_token: jwt.decode checks the signature first, then exp (expired when exp <= now)
verify_token_honoursLogout(token, now) ==
    IF token.key # "SECRET_KEY" \/ token \in logged_out THEN "Invalid token"
    ELSE IF token.exp <= now THEN "Token has expired"
    ELSE "ok"
verify_token(token, now) ==
    IF token.key # "SECRET_KEY" THEN "Invalid token"
    ELSE IF token.exp <= now THEN "Token has expired"
    ELSE "ok"

\* what a request to route r with credential cred is answered, and whether the
\* handler body ran.  Without credentials HTTPBearer rejects the request
\* before verify_token is entered.
Answer(r, cred, now) ==
    IF ~DependsOnVerifyToken(r)
    THEN [status |-> 200, detail |-> "handler", ran |-> TRUE]
    ELSE IF cred = NoCredentials
    THEN [status |-> 0, detail |-> "Not authenticated", ran |-> FALSE]
    ELSE IF verify_token(cred, now) = "ok"
    THEN [status |-> 200, detail |-> "handler", ran |-> TRUE]
    ELSE [status |-> 401, detail |-> verify_token(cred, now), ran |-> FALSE]

Request(r, cred, ans) ==
    [route |-> r, cred |-> cred,
     status |-> ans.status, detail |-> ans.detail, ran |-> ans.ran]

NoRequest == Request("none", NoCredentials, [status |-> 0, detail |-> "none", ran |-> FALSE])

Credentials == issued \cup Forged \cup {Garbage, NoCredentials}

\* POST /login with a demo user's password
Login ==
    /\ Cardinality(issued) < MaxTokens
    /\ \E u \in DEMO_USERS :
          /\ issued' = issued \cup {create_access_token(u, utcnow)}
          /\ last' = Request("/login", NoCredentials, Answer("/login", NoCredentials, utcnow))
    /\ UNCHANGED <<utcnow, logged_out, notA>>

\* POST /login with an unknown user or a wrong password
LoginRejected ==
    /\ last' = Request("/login", NoCredentials,
                       [status |-> 401, detail |-> "Invalid username or password", ran |-> TRUE])
    /\ UNCHANGED <<utcnow, issued, logged_out, notA>>

\* a request to an ingest route, a search route or GET /me
ProtectedRequest ==
    /\ \E r \in IngestRoutes \cup SearchRoutes \cup {"/me"}, cred \in Credentials :
          last' = Request(r, cred, Answer(r, cred, utcnow))
    /\ UNCHANGED <<utcnow, issued, logged_out, notA>>

\* POST /logout: Depends(verify_token), then one log line and a message
Logout ==
    /\ \E cred \in Credentials :
          LET ans == Answer("/logout", cred, utcnow) IN
          /\ last' = Request("/logout", cred, ans)
          /\ logged_out' = IF ans.ran THEN logged_out \cup {cred} ELSE logged_out
    /\ UNCHANGED <<utcnow, issued, notA>>

\* time passes, observed every half token lifetime
Tick ==
    /\ \E d \in {ACCESS_TOKEN_EXPIRE_MINUTES \div 2} :
          /\ utcnow + d <= MaxNow
          /\ utcnow' = utcnow + d
    /\ last' = NoRequest
    /\ UNCHANGED <<issued, logged_out, notA>>

InitA ==
    /\ utcnow = 0
    /\ issued = {}
    /\ logged_out = {}
    /\ last = NoRequest

NextAuth == Login \/ LoginRejected \/ ProtectedRequest \/ Logout \/ Tick

(***************************************************************************)
(* IngestionService.ingest_data, statement by statement                    *)
(***************************************************************************)
IndexNames == {"products", "reviews"}

\* pipeline_id = f"{index_name}_pipeline"; pipeline_id = None
pipeline_name(index_name) == [index |-> index_name, suffix |-> "_pipeline"]
NoPipeline == [index |-> "None", suffix |-> "None"]

\* create_index_mapping: settings["index"]["knn"], and
\* settings["index"]["default_pipeline"] = pipeline_id only if pipeline_id
create_index_mapping_noDefault(knn_columns, pid) ==
    [knn |-> knn_columns, default_pipeline |-> NoPipeline]
create_index_mapping(knn_columns, pid) ==
    [knn |-> knn_columns, default_pipeline |-> IF pid # NoPipeline THEN pid ELSE NoPipeline]

\* one call of os_service other than bulk_index
OsCall(op, index_name, pid) == [op |-> op, index |-> index_name, pipeline |-> pid]

\* FileProcessingService.is_bulk_format(file_id): called at line 289, defined
\* nowhere in the source; taken to tell a bulk-format upload from a tabular one
is_bulk_format(file) == file.bulk

\* if len(bulk_body) >= batch_size * 2   (two entries per document)
BatchFull_offByOne(docs) == docs * 2 > batch_size * 2
BatchFull(docs) == docs * 2 >= batch_size * 2

\* progress_pct after the row-th row: idx = row - 1 on the DataFrame path,
\* doc_count = row on the bulk path
progress_pct_sixty(bulk, row, total) ==
    IF bulk THEN 50 + (row * 60) \div total
            ELSE 50 + ((row - 1) * 60) \div total
progress_pct(bulk, row, total) ==
    IF bulk THEN 50 + (row * 40) \div total
            ELSE 50 + ((row - 1) * 40) \div total

IngestResult(ok, n, pid) == [success |-> ok, documents_ingested |-> n, pipeline_id |-> pid]
NoIngestResult == IngestResult(FALSE, 0 - 1, NoPipeline)

DataInputs == [index_name : IndexNames, knn : BOOLEAN, bulk : BOOLEAN, nrows : RowCounts]
NoInput == [index_name |-> "None", knn |-> FALSE, bulk |-> FALSE, nrows |-> 0]

Emit(st, pr) == Append(updates, Update(st, pr, "ingest_data"))

\* ingest_data(file_id, index_name, progress_callback) is called
IngestDataCall ==
    /\ i_pc = "idle"
    /\ \E i \in DataInputs : i_in' = i
    /\ i_pc' = "mappings"
    /\ pipeline_id' = NoPipeline
    /\ total_docs' = 0
    /\ doc_count' = 0
    /\ bulk_body' = <<>>
    /\ requests' = <<>>
    /\ os_log' = <<>>
    /\ updates' = <<>>
    /\ i_result' = NoIngestResult
    /\ UNCHANGED notI

\* lines 215-268: the mappings are there (stored or auto-generated); with KNN
\* columns the pipeline is created and update 10 sent; update 15
PipelineStep ==
    /\ i_pc = "mappings"
    /\ IF i_in.knn
       THEN /\ pipeline_id' = pipeline_name(i_in.index_name)
            /\ os_log' = Append(os_log, OsCall("put_pipeline", "None", pipeline_name(i_in.index_name)))
            /\ updates' = Emit("processing", 10) \o <<Update("processing", 15, "ingest_data")>>
       ELSE /\ pipeline_id' = NoPipeline
            /\ os_log' = os_log
            /\ updates' = Emit("processing", 15)
    /\ i_pc' = "index"
    /\ UNCHANGED <<i_in, total_docs, doc_count, bulk_body, requests, i_result, notI>>

\* lines 271-286: the index mapping, delete of an existing index, create_index,
\* update 20
IndexStep ==
    /\ i_pc = "index"
    /\ \E exists \in BOOLEAN :
         os_log' = os_log
            \o <<OsCall("exists", i_in.index_name, NoPipeline)>>
            \o (IF exists THEN <<OsCall("exists", i_in.index_name, NoPipeline),
                                 OsCall("delete", i_in.index_name, NoPipeline)>>
                          ELSE <<>>)
            \o <<OsCall("create_index", i_in.index_name,
                        create_index_mapping(i_in.knn, pipeline_id).default_pipeline)>>
    /\ updates' = Emit("processing", 20)
    /\ i_pc' = "format"
    /\ UNCHANGED <<i_in, pipeline_id, total_docs, doc_count, bulk_body, requests, i_result, notI>>

\* lines 289-299 / 365-370: is_bulk_format, update 40
FormatStep ==
    /\ i_pc = "format"
    /\ updates' = Emit("processing", 40)
    /\ i_pc' = "load"
    /\ UNCHANGED <<i_in, pipeline_id, total_docs, doc_count, bulk_body, requests, os_log,
                   i_result, notI>>

\* lines 302-315 / 372-385: get_bulk_data or load_dataframe, total_docs, update 50
LoadStep ==
    /\ i_pc = "load"
    /\ total_docs' = i_in.nrows
    /\ updates' = Emit("processing", 50)
    /\ doc_count' = 0
    /\ bulk_body' = <<>>
    /\ i_pc' = "rows"
    /\ UNCHANGED <<i_in, pipeline_id, requests, os_log, i_result, notI>>

\* lines 317-348 / 387-418: one turn of the loop over the rows
RowStep ==
    /\ i_pc = "rows"
    /\ doc_count < i_in.nrows
    /\ LET row  == doc_count + 1
           body == Append(bulk_body, row)
       IN  /\ doc_count' = row
           /\ IF BatchFull(Len(body))
              THEN /\ requests' = Append(requests, body)
                   /\ updates' = Emit("processing",
                                      progress_pct(is_bulk_format(i_in), row, total_docs))
                   /\ bulk_body' = <<>>
              ELSE /\ bulk_body' = body
                   /\ UNCHANGED <<requests, updates>>
    /\ UNCHANGED <<i_pc, i_in, pipeline_id, total_docs, os_log, i_result, notI>>

\* lines 350-358 / 420-433: after the loop.  The bulk path sends what is left
\* if anything is left; the DataFrame path calls bulk_index with whatever
\* bulk_body holds (line 423 is outside the `if bulk_body:` of line 421).
FinalBatchStep ==
    /\ i_pc = "rows"
    /\ doc_count = i_in.nrows
    /\ IF is_bulk_format(i_in)
       THEN /\ requests' = IF bulk_body # <<>> THEN Append(requests, bulk_body) ELSE requests
            /\ total_docs' = doc_count
       ELSE /\ requests' = Append(requests, bulk_body)
            /\ UNCHANGED total_docs
    /\ bulk_body' = bulk_body
    /\ updates' = Emit("processing", 95)
    /\ i_pc' = "refresh"
    /\ UNCHANGED <<i_in, pipeline_id, doc_count, os_log, i_result, notI>>

\* lines 436-458: refresh_index, the result, update completed/100, return
RefreshStep ==
    /\ i_pc = "refresh"
    /\ os_log' = Append(os_log, OsCall("refresh", i_in.index_name, NoPipeline))
    /\ i_result' = IngestResult(TRUE, total_docs, pipeline_id)
    /\ updates' = Emit("completed", 100)
    /\ i_pc' = "returned"
    /\ UNCHANGED <<i_in, pipeline_id, total_docs, doc_count, bulk_body, requests, notI>>

\* a call of the try block is about to be made in the current state
CallPending ==
    \/ i_pc \in {"mappings", "index", "format", "load", "refresh"}
    \/ /\ i_pc = "rows"
       /\ doc_count < i_in.nrows
       /\ BatchFull(Len(bulk_body) + 1)
    \/ /\ i_pc = "rows"
       /\ doc_count = i_in.nrows
       /\ (~is_bulk_format(i_in) \/ bulk_body # <<>>)

\* lines 460-471: a call raises; the except clause sends failed/0 and re-raises
IngestRaises ==
    /\ CallPending
    /\ updates' = Emit("failed", 0)
    /\ i_pc' = "raised"
    /\ UNCHANGED <<i_in, pipeline_id, total_docs, doc_count, bulk_body, requests, os_log,
                   i_result, notI>>

\* lines 274-278 and 460-471: the existing index is deleted, then create_index raises
CreateIndexRaises ==
    /\ i_pc = "index"
    /\ os_log' = os_log \o <<OsCall("exists", i_in.index_name, NoPipeline),
                             OsCall("exists", i_in.index_name, NoPipeline),
                             OsCall("delete", i_in.index_name, NoPipeline)>>
    /\ updates' = Emit("failed", 0)
    /\ i_pc' = "raised"
    /\ UNCHANGED <<i_in, pipeline_id, total_docs, doc_count, bulk_body, requests, i_result, notI>>

\* the caller has the result or the exception
IngestReturns ==
    /\ i_pc \in {"returned", "raised"}
    /\ i_pc' = "idle"
    /\ i_in' = NoInput
    /\ pipeline_id' = NoPipeline
    /\ total_docs' = 0
    /\ doc_count' = 0
    /\ bulk_body' = <<>>
    /\ requests' = <<>>
    /\ os_log' = <<>>
    /\ updates' = <<>>
    /\ i_result' = NoIngestResult
    /\ UNCHANGED notI

InitI ==
    /\ i_pc = "idle"
    /\ i_in = NoInput
    /\ pipeline_id = NoPipeline
    /\ total_docs = 0
    /\ doc_count = 0
    /\ bulk_body = <<>>
    /\ requests = <<>>
    /\ os_log = <<>>
    /\ updates = <<>>
    /\ i_result = NoIngestResult

NextIngest ==
    \/ IngestDataCall \/ PipelineStep \/ IndexStep \/ FormatStep \/ LoadStep
    \/ RowStep \/ FinalBatchStep \/ RefreshStep
    \/ IngestRaises \/ CreateIndexRaises \/ IngestReturns

(***************************************************************************)
(* FileProcessingService: the keys it keeps in Redis, and the routes that  *)
(* call it                                                                 *)
(***************************************************************************)
FileIds == {"file-a", "file-b"}          \* str(uuid.uuid4())

KeyKinds == {"file_metadata", "df_info", "mappings", "knn_columns"}
Keys == KeyKinds \X FileIds              \* f"{kind}:{file_id}"

Expiry == 3600 * 24                      \* the expiry passed to every setex
HalfDay == Expiry \div 2                 \* the model's clock moves in half days
NoExpiry == 0 - 1                        \* a key written without an expiry

\* redis_client.setex(key, seconds, value)
setex(store, key, seconds) == [store EXCEPT ![key] = seconds]

\* redis_client.get(key): the value, or None for a key that is not there
Readable(store, key) == store[key] # 0

save_uploaded_file(store, f) == setex(store, <<"file_metadata", f>>, Expiry)

\* load_dataframe: ValueError when the metadata is gone or the file cannot be
\* read (nothing is written), else df_info is stored
load_dataframe(store, f, reads) ==
    IF Readable(store, <<"file_metadata", f>>) /\ reads
    THEN setex(store, <<"df_info", f>>, Expiry)
    ELSE store

store_mappings_set(store, f) == [store EXCEPT ![<<"mappings", f>>] = NoExpiry]
store_mappings(store, f) == setex(store, <<"mappings", f>>, Expiry)

store_knn_selections(store, f) == setex(store, <<"knn_columns", f>>, Expiry)

\* POST /upload: save_uploaded_file, then load_dataframe for .xlsx and .csv
UploadFile(f) ==
    /\ f \notin file_ids
    /\ file_ids' = file_ids \cup {f}
    /\ \E loads \in BOOLEAN, reads \in BOOLEAN :
          redis' = IF loads THEN load_dataframe(save_uploaded_file(redis, f), f, reads)
                            ELSE save_uploaded_file(redis, f)
    /\ UNCHANGED <<f_read, notF>>

\* POST /preview, /get-columns, /suggest-mappings, and ingest_data: load_dataframe
LoadRoute(f) ==
    /\ \E reads \in BOOLEAN : redis' = load_dataframe(redis, f, reads)
    /\ UNCHANGED <<file_ids, f_read, notF>>

\* POST /confirm-mappings
ConfirmMappings(f) ==
    /\ redis' = store_mappings(redis, f)
    /\ UNCHANGED <<file_ids, f_read, notF>>

\* POST /confirm-knn
ConfirmKnn(f) ==
    /\ redis' = store_knn_selections(redis, f)
    /\ UNCHANGED <<file_ids, f_read, notF>>

\* POST /ingest-summary: 404 unless the metadata, df_info and the mappings
\* are all there; knn_columns defaults to []
IngestSummary(f) ==
    /\ f_read' = [file |-> f,
                  status |-> IF /\ Readable(redis, <<"file_metadata", f>>)
                                /\ Readable(redis, <<"df_info", f>>)
                                /\ Readable(redis, <<"mappings", f>>)
                             THEN 200 ELSE 404]
    /\ UNCHANGED <<redis, file_ids, notF>>

\* half a day passes: Redis drops the keys whose time is up
RedisTick ==
    /\ \E k \in Keys : redis[k] # 0
    /\ redis' = [k \in Keys |->
                    IF redis[k] = NoExpiry THEN NoExpiry
                    ELSE IF redis[k] > HalfDay THEN redis[k] - HalfDay ELSE 0]
    /\ UNCHANGED <<file_ids, f_read, notF>>

InitF ==
    /\ redis = [k \in Keys |-> 0]
    /\ file_ids = {}
    /\ f_read = [file |-> "None", status |-> 0]

NextFiles ==
    \/ \E f \in FileIds :
          \/ UploadFile(f) \/ LoadRoute(f) \/ ConfirmMappings(f) \/ ConfirmKnn(f)
          \/ IngestSummary(f)
    \/ RedisTick

(***************************************************************************)
(* Specifications                                                          *)
(***************************************************************************)
Init == InitW /\ InitR /\ InitS /\ InitM /\ InitQ /\ InitA /\ InitI /\ InitF

SpecWait     == Init /\ [][NextWait]_vars
SpecRegister == Init /\ [][NextRegister]_vars
SpecStream   == Init /\ [][NextStream]_vars
SpecMcp      == Init /\ [][NextMcp]_vars
SpecQuery    == Init /\ [][NextQuery]_vars
SpecAuth     == Init /\ [][NextAuth]_vars
SpecIngest   == Init /\ [][NextIngest]_vars
SpecFiles    == Init /\ [][NextFiles]_vars

(***************************************************************************)
(* C1: wait_for_model_deployment returns a boolean and never polls         *)
(* forever: True on DEPLOYED, False on FAILED, and False once more than    *)
(* `timeout` seconds have passed since the call, also when every status    *)
(* request raises.  Stated on states: a returned call has the right        *)
(* boolean, and the function never goes back to sleep for another poll     *)
(* once more than `timeout` seconds have passed.                           *)
(***************************************************************************)
C1_ReturnsWithinTimeout ==
    /\ w_pc = "returned" => w_result \in {"True", "False"}
    /\ (w_pc = "returned" /\ current_status = "DEPLOYED") => w_result = "True"
    /\ (w_pc = "returned" /\ current_status = "FAILED") => w_result = "False"
    /\ w_pc = "sleep" => w_now - start_time <= timeout

(***************************************************************************)
(* C2 (as stated): the registration poll loop is left only when a poll     *)
(* returns state COMPLETED; in every other case it sleeps and polls again. *)
(***************************************************************************)
C2_LeftOnlyOnCompleted ==
    r_pc \in {"done", "raised"} => status_state = "COMPLETED"

(***************************************************************************)
(* C2 (amended): the loop has no timeout and no poll limit; it ends        *)
(* normally only when a poll returns COMPLETED, it ends with an uncaught   *)
(* exception when the status request raises, and after every poll that     *)
(* returns any other state it sleeps 10 seconds and polls again, so a task *)
(* that is FAILED is polled for ever.                                      *)
(***************************************************************************)
C2_UnboundedPollLoop ==
    /\ r_pc = "done"   => status_state = "COMPLETED"
    /\ r_pc = "raised" => status_state = "ERROR"
    /\ r_pc = "sleep"  => status_state \in TaskStates \ {"COMPLETED"}
    /\ r_task = "FAILED" => r_pc # "done"
    /\ r_pc = "poll" => r_slept = SleepSeconds * r_polls
    /\ r_pc \in {"sleep", "done", "raised"} => r_slept = SleepSeconds * (r_polls - 1)

C2_Witness ==
    /\ r_task = "FAILED"
    /\ status_state = "FAILED"
    /\ r_polls >= 3
    /\ r_pc = "poll"
    /\ r_slept = SleepSeconds * 3

(***************************************************************************)
(* C3: on POST /ingest-stream every update ingest_data passes to           *)
(* progress_callback is written to the SSE stream, in the order produced,  *)
(* before the terminal completed/failed event: a finished stream is the    *)
(* produced updates followed by the terminal event.                        *)
(***************************************************************************)
C3_UpdatesStreamedInOrder ==
    (route = "ingest-stream" /\ g_pc = "done")
        => sse = produced \o <<TerminalEvent(s_in.failAt)>>

(***************************************************************************)
(* C4 (as stated): no route handler starts work that runs concurrently     *)
(* with it: a request never has more than one task in flight.              *)
(***************************************************************************)
C4_OneTaskInFlight == TasksInFlight <= 1

(***************************************************************************)
(* C4 (amended): only POST /ingest-stream fans out.  Its generator starts  *)
(* run_ingestion as a task of its own and progress_callback creates one    *)
(* more task per update, so the request has the generator, run_ingestion   *)
(* until it ends, and at most one put task per produced update in flight;  *)
(* POST /ingest never has more than its one handler task.                  *)
(***************************************************************************)
C4_OnlyStreamFansOut ==
    /\ route # "ingest-stream" => TasksInFlight <= 1
    /\ route = "ingest-stream" =>
          /\ PendingPuts <= Len(produced)
          /\ TasksInFlight <= 1 + (IF run_pc = "created" THEN 1 ELSE 0) + Len(produced)

C4_Witness ==
    /\ route = "ingest-stream"
    /\ g_pc = "runnable"
    /\ run_pc = "done"
    /\ PendingPuts >= 2
    /\ TasksInFlight >= 3

(***************************************************************************)
(* C5: get_mcp_client never returns a client that is not initialized:      *)
(* every call returns a client whose initialize() has returned True or     *)
(* raises, also after an earlier call raised.                              *)
(***************************************************************************)
C5_ReturnedClientInitialized ==
    \A c \in Callers : c_pc[c] = "got" => c_saw[c] = "True"

(***************************************************************************)
(* C6: while one coroutine is still awaiting initialize(), no other        *)
(* coroutine obtains the client, and initialize() is run only once.        *)
(***************************************************************************)
C6_NoClientWhileInitializing ==
    /\ init_calls <= 1
    /\ (\E d \in Callers : c_pc[d] = "initializing")
          => \A c \in Callers : c_pc[c] # "got"

(***************************************************************************)
(* C7: MCPClient.query invokes the LLM at most 10 times per query; it      *)
(* returns success=True at the first response without tool calls, and      *)
(* after a tenth consecutive response asking for tools it returns          *)
(* success=False with the max-iterations error; in both cases              *)
(* metadata.iterations is the number of LLM invocations made.              *)
(***************************************************************************)
C7_AtMostTenInvocations ==
    /\ llm_calls <= max_iterations
    /\ (q_pc = "loop" /\ llm_calls > 0) => last_tool_calls > 0
    /\ (q_pc = "returned" /\ q_result.success) =>
          /\ last_tool_calls = 0
          /\ tool_requests >= llm_calls - 1
          /\ q_result.iterations = llm_calls
    /\ (q_pc = "returned" /\ q_result.error = "Max iterations reached") =>
          /\ ~q_result.success
          /\ last_tool_calls > 0
          /\ llm_calls = max_iterations
          /\ q_result.iterations = llm_calls
    /\ (q_pc = "returned" /\ last_tool_calls > 0 /\ q_result.error # "exception")
          => q_result.error = "Max iterations reached"

C7_Witness ==
    /\ q_pc = "returned"
    /\ q_result = Result(FALSE, "Max iterations reached", max_iterations)
    /\ llm_calls = max_iterations

(***************************************************************************)
(* C8 (as stated): every agent or natural-language-query operation is one  *)
(* pass-through call and the repository's code does not itself loop over   *)
(* LLM responses running tools and feeding the results back: a query       *)
(* invokes the LLM once and its messages never grow by tool results.       *)
(***************************************************************************)
C8_SinglePassThrough ==
    /\ llm_calls <= 1
    /\ tool_calls_made = 0
    /\ Len(messages) <= 2

(***************************************************************************)
(* C8 (amended): MCPClient.query runs the agent loop itself: for every     *)
(* tool call an LLM response asks for it appends the assistant message and *)
(* the tool's result to the messages and invokes the LLM again, up to 10   *)
(* invocations per query.  SearchService.execute_with_agent invokes no     *)
(* LLM: it makes between 1 and 7 OpenSearch calls in sequence.             *)
(***************************************************************************)
C8_QueryLoopsLocally ==
    /\ q_pc \in {"loop", "returned"} /\ messages # <<>> =>
          /\ messages = <<"system", "user">> \o Repeat(<<"assistant", "tool">>, tool_requests)
          /\ tool_calls_made <= tool_requests
          /\ llm_calls <= max_iterations
          /\ llm_calls > 1 => tool_requests >= llm_calls - 1
    /\ a_calls.llm = 0
    /\ a_calls.os \in 0..7

C8_Witness ==
    /\ q_pc = "returned"
    /\ q_result.success
    /\ llm_calls = 3
    /\ tool_calls_made = 2
    /\ messages = <<"system", "user", "assistant", "tool", "assistant", "tool">>

C10_LogoutInvalidatesNothing ==
    /\ \A t \in logged_out :
          /\ t \in issued
          /\ \A r \in IngestRoutes \cup SearchRoutes \cup AuthRoutes :
                Answer(r, t, utcnow).ran <=> utcnow < t.exp
    /\ (last.cred \in logged_out /\ utcnow < last.cred.exp) => last.ran

C10_Witness ==
    /\ last.route = "/ingest"
    /\ last.cred \in logged_out
    /\ utcnow > 0
    /\ last.ran

(***************************************************************************)
(* C11: when ingest_data returns success for a file of N rows,             *)
(* documents_ingested is N, the bulk requests taken together hold every    *)
(* row exactly once and in row order, and no bulk request holds more than  *)
(* 500 documents.                                                          *)
(***************************************************************************)
RECURSIVE Flatten(_)
Flatten(sqs) == IF sqs = <<>> THEN <<>> ELSE Head(sqs) \o Flatten(Tail(sqs))

C14_PipelineBeforeIndex ==
    LET puts    == {j \in 1..Len(os_log) : os_log[j].op = "put_pipeline"}
        creates == {j \in 1..Len(os_log) : os_log[j].op = "create_index"}
    IN
    /\ i_in.knn =>
          \A c \in creates :
             /\ os_log[c].index = i_in.index_name
             /\ os_log[c].pipeline = pipeline_name(i_in.index_name)
             /\ \E p \in puts : p < c /\ os_log[p].pipeline = pipeline_name(i_in.index_name)
    /\ ~i_in.knn =>
          /\ puts = {}
          /\ \A c \in creates : os_log[c].pipeline = NoPipeline
    /\ i_pc \in {"format", "load", "rows", "refresh", "returned"} => Cardinality(creates) = 1

C14_Witness ==
    /\ i_pc = "format"
    /\ i_in.knn
    /\ i_in.index_name = "reviews"
    /\ os_log[1] = OsCall("put_pipeline", "None", pipeline_name("reviews"))
    /\ os_log[Len(os_log)] = OsCall("create_index", "reviews", pipeline_name("reviews"))

(***************************************************************************)
(* C13: every Redis key of the generic ingest/search app is written with   *)
(* the 24-hour expiry and never without one, and no request handler        *)
(* deletes a key: a key that is there is still there after any step,       *)
(* unless the step is the passing of time and the key's time was up.       *)
(***************************************************************************)
C13_KeysLiveUntilExpiry ==
    /\ [](\A k \in Keys : redis[k] \in 0..Expiry)
    /\ [][\A k \in Keys :
            Readable(redis, k) =>
               \/ Readable(redis', k)
               \/ (RedisTick /\ redis[k] <= HalfDay)]_vars

C13_Witness ==
    /\ redis[<<"file_metadata", "file-a">>] = HalfDay
    /\ redis[<<"df_info", "file-a">>] = Expiry
    /\ redis[<<"mappings", "file-a">>] = HalfDay
    /\ redis[<<"knn_columns", "file-a">>] = HalfDay
    /\ f_read = [file |-> "file-a", status |-> 200]

====
